---- MODULE Spec2Model ----
(***************************************************************************)
(* Markdown image localization pipeline of jira_to_markdown                *)
(* (src/jira_to_markdown/image_downloader.py, class ImageDownloader).      *)
(*                                                                         *)
(* A document is a sequence of lexemes: "![alt](" (img), a piece of URL    *)
(* text (url) and ")" (close).  IMAGE_PATTERN, str.replace and             *)
(* os.path.relpath are computed on these sequences as the code computes    *)
(* them on characters.  The asset directory is a map from file names       *)
(* (strings) to the bytes they hold.                                       *)
(*                                                                         *)
(* Three specifications share the variables: Spec (the runs of             *)
(* process_directory), ClassifierSpec (the classification of a reference   *)
(* and the credentials of its request) and WriterSpec (FileWriter of       *)
(* src/jira_to_markdown/file_writer.py).  Each one holds the variables of  *)
(* the other two at their initial values.                                  *)
(***************************************************************************)
EXTENDS Integers, Sequences, FiniteSets, TLC

\* ------------------------------------------------------------------ bounds
MaxRefs == 3        \* image embeds in the directory when the first run starts
MaxRuns == 2        \* invocations of process_directory (one instance each)
MaxImageUnits == 1  \* the size cap, counted in stream chunks (a body has
                    \* 1 .. cap + 1 chunks)
MaxCalls == 3       \* calls of write_ticket and file_exists on one FileWriter

\* --------------------------------------------------------------- constants
MAX_IMAGE_SIZE == MaxImageUnits

output_dir == <<"out">>
images_dir == <<"out", "images">>

IMAGE_EXTENSIONS == {".png", ".jpg", ".jpeg", ".gif", ".svg", ".webp", ".bmp", ".ico"}

\* ------------------------------------------------------------ documents
\* A file name "<key><tail><ext>": key is the longest prefix matching
\* [A-Z]+-\d+ ("" when the stem has none), tail the rest of the stem.
DocA == [key |-> "PROJ-1", tail |-> "", ext |-> ".md"]
DocB == [key |-> "PROJ-1", tail |-> " Title", ext |-> ".md"]
DocC == [key |-> "PROJ-2", tail |-> "", ext |-> ".md"]
Notes == [key |-> "", tail |-> "notes", ext |-> ".txt"]

\* The files under output_dir: sub is the directory of the file below
\* output_dir (<<>> for output_dir itself).
Listing ==
    { [sub |-> <<>>, file |-> DocA],
      [sub |-> <<>>, file |-> DocB],
      [sub |-> <<>>, file |-> Notes],
      [sub |-> <<"archive">>, file |-> DocC] }

\* Path.rglob('*.md'): the .md files of the directory and of every directory
\* below it.
GlobRecursive(listing) == {e.file : e \in {x \in listing : x.file.ext = ".md"}}

\* Path.glob('*.md'): the files right in the directory whose name ends in .md
Glob(listing) == {e.file : e \in {x \in listing : x.sub = <<>> /\ x.file.ext = ".md"}}

\* md_files of process_directory, line 79
Docs == Glob(Listing)

\* URL text as written in a document: dir holds the path segments before
\* the last one, name and ext the last segment split at its last dot.
NoUrl == [scheme |-> "", host |-> "", dir |-> <<>>, name |-> "", ext |-> ""]
U1 == [scheme |-> "https", host |-> "jira.example", dir |-> <<"secure", "attachment", "1">>,
       name |-> "x", ext |-> ".png"]
U2 == [scheme |-> "http", host |-> "cdn.example", dir |-> <<"img">>,
       name |-> "x", ext |-> ".png"]
LocalU == [scheme |-> "", host |-> "", dir |-> <<".", "images">>, name |-> "y", ext |-> ".png"]

Img(alt) == [t |-> "img", alt |-> alt, u |-> NoUrl]
UrlText(u) == [t |-> "url", alt |-> "", u |-> u]
Close == [t |-> "close", alt |-> "", u |-> NoUrl]

Markup(alt, url) == <<Img(alt)>> \o url \o <<Close>>

\* The shapes of image embeds the first run may find in a document.
Segments ==
    { Markup("a", <<UrlText(U1)>>),
      Markup("a", <<UrlText(U2)>>),
      Markup("a", <<UrlText(LocalU)>>),
      \* ![a](./images/y.png ![a](https://jira.example/.../x.png)
      Markup("a", <<UrlText(LocalU), Img("a"), UrlText(U1)>>) }

\* The text of the files that are not documents of output_dir.
OtherText == Markup("a", <<UrlText(U1)>>)

\* The texts made of exactly n embeds.
RECURSIVE TextsOf(_)
TextsOf(n) ==
    IF n = 0 THEN {<<>>}
    ELSE {t \o s : t \in TextsOf(n - 1), s \in Segments}

\* ------------------------------------------------------- pure functions
Min(S) == CHOOSE m \in S : \A n \in S : m <= n

\* url.startswith(('http://', 'https://'))
IsRemote(url) == url # <<>> /\ url[1].t = "url" /\ url[1].u.scheme \in {"http", "https"}

\* IMAGE_PATTERN at position i: "![alt](" then [^)]+ then ")".
\* The index of the closing lexeme, 0 when the pattern does not match at i.
MatchEnd(c, i) ==
    IF c[i].t # "img" THEN 0
    ELSE LET closes == {j \in (i + 1)..Len(c) : c[j].t = "close"}
         IN  IF closes = {} THEN 0
             ELSE IF Min(closes) = i + 1 THEN 0
             ELSE Min(closes)

RECURSIVE ScanFrom(_, _)
ScanFrom(c, i) ==
    IF i > Len(c) THEN <<>>
    ELSE LET e == MatchEnd(c, i)
         IN  IF e = 0 THEN ScanFrom(c, i + 1)
             ELSE <<[alt_text |-> c[i].alt,
                     url |-> SubSeq(c, i + 1, e - 1),
                     full_match |-> SubSeq(c, i, e),
                     pos |-> i]>> \o ScanFrom(c, e + 1)

\* re.finditer over the whole text, first to last.  pos is the offset of the
\* match (match.start()), which the code does not keep.
_find_images(content) == ScanFrom(content, 1)

IsAt(s, old, i) == i + Len(old) - 1 <= Len(s) /\ SubSeq(s, i, i + Len(old) - 1) = old

\* str.replace(old, new, 1): the first occurrence of old in s, wherever it is.
ReplaceFirst(s, old, new) ==
    LET at == {i \in 1..Len(s) : IsAt(s, old, i)}
    IN  IF at = {} THEN s
        ELSE LET i == Min(at)
             IN  SubSeq(s, 1, i - 1) \o new \o SubSeq(s, i + Len(old), Len(s))

\* os.path.relpath(to_file, from_dir) on normalized absolute paths.
RECURSIVE CommonLen(_, _)
CommonLen(p, q) ==
    IF p = <<>> \/ q = <<>> THEN 0
    ELSE IF Head(p) # Head(q) THEN 0
    ELSE 1 + CommonLen(Tail(p), Tail(q))

_get_relative_path(from_dir, to_file) ==
    LET k == CommonLen(from_dir, to_file)
    IN  [i \in 1..(Len(from_dir) - k) |-> ".."] \o SubSeq(to_file, k + 1, Len(to_file))

\* A relative path as URL text: directory segments and the file name.
PathUrl(rel) ==
    [scheme |-> "", host |-> "", dir |-> SubSeq(rel, 1, Len(rel) - 1),
     name |-> rel[Len(rel)], ext |-> ""]

\* The file a relative reference written in a document of from_dir names.
RECURSIVE Normalize(_, _)
Normalize(done, rest) ==
    IF rest = <<>> THEN done
    ELSE IF Head(rest) = "." THEN Normalize(done, Tail(rest))
    ELSE IF Head(rest) = ".." /\ done # <<>>
         THEN Normalize(SubSeq(done, 1, Len(done) - 1), Tail(rest))
    ELSE Normalize(Append(done, Head(rest)), Tail(rest))

Resolve(from_dir, u) == Normalize(from_dir, u.dir \o <<u.name \o u.ext>>)

\* f'![{img.alt_text}]({relative_path})'
LocalMarkup(alt, from_dir, to_file) ==
    Markup(alt, <<UrlText(PathUrl(_get_relative_path(from_dir, to_file)))>>)

\* filepath.stem matched against ^([A-Z]+-\d+)
_extract_ticket_key(filepath) ==
    IF filepath.key # "" THEN filepath.key ELSE filepath.tail

\* Path(filename).suffix.lower() in IMAGE_EXTENSIONS, on the suffix
_has_image_extension(ext) == ext \in IMAGE_EXTENSIONS

\* Path(alt_text).suffix of the alt texts of this model
AltSuffix(alt) == IF alt = "shot.png" THEN ".png" ELSE ""
AltStem(alt) == IF alt = "shot.png" THEN "shot" ELSE alt

\* hashlib.md5(url.encode()).hexdigest()[:8]: a digest of the URL text
Md5Hex8(url) == "md5" \o url[1].u.host \o url[1].u.name

\* _sanitize_filename on a name given as [stem, ext].  The names of this
\* model hold letters, digits, '-' and inner dots only and are shorter than
\* 200 characters: re.sub and strip('. ') find nothing to change and the cut
\* is not taken, which leaves the final "filename or 'image.png'".
_sanitize_filename(n) ==
    IF n.stem = "" /\ n.ext = "" THEN [stem |-> "image", ext |-> ".png"] ELSE n

\* The name chosen from the URL path, the alt text or the digest
\* (lines 217-228), as [stem, ext].
OriginalName(url, alt_text) ==
    LET fromPath == IF Len(url) = 1 THEN [stem |-> url[1].u.name, ext |-> url[1].u.ext]
                    ELSE [stem |-> "", ext |-> ""]
    IN  _sanitize_filename(
          IF (fromPath.stem \o fromPath.ext) = "" \/ ~_has_image_extension(fromPath.ext)
          THEN IF alt_text # "" /\ _has_image_extension(AltSuffix(alt_text))
               THEN [stem |-> AltStem(alt_text), ext |-> AltSuffix(alt_text)]
               ELSE [stem |-> "image-" \o Md5Hex8(url), ext |-> ".png"]
          ELSE fromPath)

\* FreeName without the while loop: the prefixed name, taken or not.
FreeNameUnchecked(existing, base_name, ext, counter) == base_name \o ext

\* The while loop of lines 231-235: the first of name.ext, name-1.ext,
\* name-2.ext, ... that is no file of the asset directory.
RECURSIVE FreeName(_, _, _, _)
FreeName(existing, base_name, ext, counter) ==
    LET final_name == IF counter = 0 THEN base_name \o ext
                      ELSE base_name \o "-" \o ToString(counter) \o ext
    IN  IF final_name \in existing THEN FreeName(existing, base_name, ext, counter + 1)
        ELSE final_name

_generate_filename(existing, ticket_key, url, alt_text) ==
    LET original_name == OriginalName(url, alt_text)
    IN  FreeName(existing, ticket_key \o "-" \o original_name.stem, original_name.ext, 0)

\* ------------------------------------------------------------------ state
VARIABLES
    docs,        \* output_dir: document -> text
    assets,      \* images_dir: file name -> [url, bytes, total]
    imgTemps,    \* images_dir: the '.<name>.*.tmp' files, [prefix, bytes]
    docTemps,    \* output_dir: the '.<doc>.*.tmp' files, [prefix, text]
    cache,       \* self._downloaded_files: url -> local path
    pc,          \* where the run is
    exc,         \* the exception that left process_directory, "" when none
    md_files,    \* process_directory: the documents still to process
    results,     \* process_directory: document -> result
    filepath,    \* process_file: the document being processed
    content,     \* process_file: the text read
    images,      \* process_file: the references found
    idx,         \* process_file: the reference the loop is at
    updated_content,
    result,
    dl,          \* _download_image: [url, name, size, total]
    run,         \* history: number of runs started
    fetches,     \* history: the requests of this run, in order, [doc, url]
    outcomes,    \* history: document -> what happened to each reference,
                 \*          [what, url, pos, name] (name: the local file name)
    written,     \* history: documents _write_atomic was called for in this run
    start,       \* history: docs, asset files and kind of end of the run before
    \* The classification of a reference and the request made for it
    \* (__init__, _is_jira_url, _download_image), followed on their own:
    jira_domain,     \* self.jira_domain
    jira_username,   \* self.jira_username, "" when not configured
    jira_api_token,  \* self.jira_api_token, "" when not configured
    info,            \* the ImageInfo of the reference scanned, [url, is_jira]
    request,         \* the arguments of requests.get, [url, auth]
    download_result, \* the DownloadResult of the request, with what was raised
    \* A FileWriter and its output directory (file_writer.py), followed on
    \* their own:
    overwrite,        \* self.overwrite
    filename_format,  \* self.filename_format, as a sequence of parts
    out_files,        \* the output directory: file name -> content
    out_temps,        \* the output directory: its '.<name>.*.tmp' files
    call,             \* the write_ticket call that is inside _write_atomic
    ret,              \* the last call that ended and how it ended
    wrote,            \* history: the ticket keys write_ticket wrote a file for
    calls,            \* history: number of calls of the writer's methods so far
    \* The two _sanitize_filename methods, applied to one text:
    raw,              \* the text, a sequence of characters
    clean,            \* what each method returned for it, once it was called
    \* Two callers of process_file on one ImageDownloader, each at the one
    \* remote reference of its document (lines 126-160):
    caller,           \* caller -> [pc, doc, url, local_filename, outcome, path]
    shared_cache,     \* self._downloaded_files: url -> local file name
    shared_files,     \* images_dir: file name -> the url it was fetched from
    sent,             \* history: the requests made, [caller, url]
    \* The paginated fallback of JiraClient.search_all_issues and the server
    \* it asks (jira_client.py lines 210-231); the matching issues are
    \* 1..matches in the server's order:
    matches,          \* server: the number of issues that match the query
    page_cap,         \* server: the most issues it puts in one page
    batch_size,       \* the argument batch_size
    start_at,         \* the local start_at
    all_issues,       \* the local all_issues
    returned,         \* whether search_all_issues has returned all_issues
    searches          \* history: the number of search_issues requests

vars == <<docs, assets, imgTemps, docTemps, cache, pc, exc, md_files, results, filepath,
          content, images, idx, updated_content, result, dl, run, fetches, outcomes,
          written, start, jira_domain, jira_username, jira_api_token, info, request,
          download_result, overwrite, filename_format, out_files, out_temps, call, ret, wrote, calls,
          raw, clean, caller, shared_cache, shared_files, sent,
          matches, page_cap, batch_size, start_at, all_issues, returned, searches>>

disk == <<docs, assets, imgTemps, docTemps>>
frame == <<filepath, content, images, idx, updated_content, result>>
history == <<run, start>>
classifier == <<jira_domain, jira_username, jira_api_token, info, request,
               download_result>>
writer == <<overwrite, filename_format, out_files, out_temps, call, ret, wrote, calls>>

sanitizer == <<raw, clean>>
concurrent == <<caller, shared_cache, shared_files, sent>>
pager == <<matches, page_cap, batch_size, start_at, all_issues, returned, searches>>

\* What belongs to none of the pipeline, the classification and the writer.
elsewhere == <<sanitizer, concurrent, pager>>

\* What the runs of process_directory leave alone.
apart == <<classifier, writer, elsewhere>>

NoDoc == [key |-> "", tail |-> "", ext |-> ""]
NoResult == [ticket_key |-> "", images_found |-> 0, images_downloaded |-> 0,
             images_skipped |-> 0, images_failed |-> 0, errors |-> <<>>]
NoDl == [url |-> <<>>, name |-> "", size |-> 0, total |-> 0]
NoInfo == [url |-> <<>>, is_jira |-> FALSE]
NoRequest == [url |-> <<>>, auth |-> <<>>]
NoException == [class |-> "", status |-> 0, message |-> ""]
NoDownload == [success |-> FALSE, error |-> "", raised |-> NoException, phase |-> ""]

NoData == [summary |-> <<>>, created |-> [year |-> 0, month |-> 0, day |-> 0]]
NoCall == [ticket_key |-> <<>>, markdown_content |-> "", ticket_data |-> NoData,
           filepath |-> <<>>, had |-> ""]
NoRet == [op |-> "", ticket_key |-> <<>>, markdown_content |-> "", ticket_data |-> NoData,
          filepath |-> <<>>, answer |-> FALSE, raised |-> "", had |-> ""]

NotCalled == [done |-> FALSE, name |-> <<>>]

\* No text is being sanitized.
SanitizerOff ==
    /\ raw = <<>>
    /\ clean = [image |-> NotCalled, file |-> NotCalled]

\* No concurrent callers are being followed.
ConcurrentOff ==
    /\ caller = <<>>
    /\ shared_cache = <<>>
    /\ shared_files = <<>>
    /\ sent = <<>>

\* No search is being followed.
PagerOff ==
    /\ matches = 0
    /\ page_cap = 0
    /\ batch_size = 0
    /\ start_at = 0
    /\ all_issues = <<>>
    /\ returned = FALSE
    /\ searches = 0

ElsewhereOff == SanitizerOff /\ ConcurrentOff /\ PagerOff

\* No FileWriter is being followed.
WriterOff ==
    /\ overwrite = FALSE
    /\ filename_format = <<>>
    /\ out_files = <<>>
    /\ out_temps = {}
    /\ call = NoCall
    /\ ret = NoRet
    /\ wrote = {}
    /\ calls = 0

\* No downloader is being followed for its classification.
ClassifierOff ==
    /\ jira_domain = ""
    /\ jira_username = ""
    /\ jira_api_token = ""
    /\ info = NoInfo
    /\ request = NoRequest
    /\ download_result = NoDownload

Init ==
    /\ \E nA \in 0..MaxRefs : \E nB \in 0..(MaxRefs - nA) :
         \E tA \in TextsOf(nA), tB \in TextsOf(nB) :
            docs = (DocA :> tA) @@ (DocB :> tB) @@ (DocC :> OtherText) @@ (Notes :> OtherText)
    /\ assets = <<>>
    /\ imgTemps = {}
    /\ docTemps = {}
    /\ cache = <<>>
    /\ pc = "idle"
    /\ exc = ""
    /\ md_files = <<>>
    /\ results = <<>>
    /\ filepath = NoDoc
    /\ content = <<>>
    /\ images = <<>>
    /\ idx = 0
    /\ updated_content = <<>>
    /\ result = NoResult
    /\ dl = NoDl
    /\ run = 0
    /\ fetches = <<>>
    /\ outcomes = <<>>
    /\ written = {}
    /\ start = [docs |-> docs, saved |-> {}, clean |-> FALSE]
    /\ ClassifierOff
    /\ WriterOff
    /\ ElsewhereOff


\* ---------------------------------------------------------------- helpers
Orders(S) ==
    {q \in [1..Cardinality(S) -> S] : \A i, j \in 1..Cardinality(S) : q[i] = q[j] => i = j}

ResetFrame ==
    /\ filepath' = NoDoc
    /\ content' = <<>>
    /\ images' = <<>>
    /\ idx' = 0
    /\ updated_content' = <<>>
    /\ result' = NoResult

\* "return result" of process_file and lines 85, 83 of process_directory
Return(d, r) ==
    /\ results' = (d :> r) @@ results
    /\ md_files' = Tail(md_files)
    /\ pc' = "loop"
    /\ ResetFrame

\* An exception leaves process_file and process_directory.
Raise(cause) ==
    /\ pc' = "raised"
    /\ exc' = cause
    /\ md_files' = <<>>
    /\ results' = <<>>
    /\ ResetFrame

\* LocalFilename without the look at the asset directory: the prefixed name
\* of the reference, whether a file has it or not.
LocalFilenameTaken ==
    _generate_filename({}, _extract_ticket_key(filepath),
                       images[idx].url, images[idx].alt_text)

\* line 131: the name allocated for the reference the loop is at
LocalFilename ==
    _generate_filename(DOMAIN assets, _extract_ticket_key(filepath),
                       images[idx].url, images[idx].alt_text)

Note(what, name) ==
    outcomes' = [outcomes EXCEPT ![filepath] =
                    Append(@, [what |-> what, url |-> images[idx].url,
                               pos |-> images[idx].pos, name |-> name])]

Fetch == fetches' = Append(fetches, [doc |-> filepath, url |-> images[idx].url])

\* The exceptions _download_image meets, as [class, status, message]: what
\* requests.get and raise_for_status raise (lines 274-282), what iter_content
\* raises while the body is read (line 297: a read timeout in the body comes
\* out of it as ConnectionError), the cap breach of line 300 and the OSError
\* of mkstemp, write and os.replace (lines 291-303).
HTTPError(status) == [class |-> "HTTPError", status |-> status, message |-> "HTTPError"]
Raised(class) == [class |-> class, status |-> 0, message |-> class]
SizeExceeded == [class |-> "Exception", status |-> 0, message |-> "Image exceeds maximum size"]

\* The classes an exception is an instance of: ConnectTimeout derives from
\* both ConnectionError and Timeout, ReadTimeout from Timeout.
Bases(class) ==
    CASE class = "HTTPError" -> {"HTTPError", "RequestException", "Exception"}
      [] class = "ConnectionError" -> {"ConnectionError", "RequestException", "Exception"}
      [] class = "ConnectTimeout" ->
            {"ConnectTimeout", "ConnectionError", "Timeout", "RequestException", "Exception"}
      [] class = "ReadTimeout" -> {"ReadTimeout", "Timeout", "RequestException", "Exception"}
      [] class = "ChunkedEncodingError" ->
            {"ChunkedEncodingError", "RequestException", "Exception"}
      [] class = "OSError" -> {"OSError", "Exception"}
      [] OTHER -> {"Exception"}

\* The except clauses of _download_image, in their order (lines 312-319)
ExceptClauses == <<"HTTPError", "ConnectionError", "Timeout", "Exception">>

\* The clause that catches an exception: the first whose class it is an
\* instance of.
CaughtBy(e) ==
    LET hits == {i \in 1..Len(ExceptClauses) : ExceptClauses[i] \in Bases(e.class)}
    IN ExceptClauses[CHOOSE i \in hits : \A j \in hits : i <= j]

\* The error text of the DownloadResult a caught exception is turned into.
DownloadError(e) ==
    CASE CaughtBy(e) = "HTTPError" -> "HTTP " \o ToString(e.status)
      [] CaughtBy(e) = "ConnectionError" -> "Connection failed"
      [] CaughtBy(e) = "Timeout" -> "Request timed out"
      [] OTHER -> e.message

\* The exception behind each kind of failure of a download.
ExceptionOf(kind) ==
    CASE kind = "http" -> HTTPError(404)
      [] kind = "connection" -> Raised("ConnectionError")
      [] kind = "connect_timeout" -> Raised("ConnectTimeout")
      [] kind = "read_timeout" -> Raised("ReadTimeout")
      [] kind = "oversize" -> SizeExceeded
      [] kind = "truncated" -> Raised("ChunkedEncodingError")
      [] OTHER -> Raised("OSError")

ErrorOf(kind) == DownloadError(ExceptionOf(kind))

\* lines 157-160, then the next reference
Failed(url, name, error) ==
    /\ result' = [result EXCEPT !.images_failed = @ + 1,
                                !.errors = Append(@, [url |-> url, error |-> error])]
    /\ idx' = idx + 1
    /\ pc' = "ref"
    /\ dl' = NoDl
    /\ Note("failed", name)
    /\ UNCHANGED <<docs, docTemps, cache, exc, md_files, results, filepath, content, images,
                   updated_content, written, history, apart>>

\* Localized without the count of lines 142 and 155: the reference is
\* rewritten, images_downloaded stays.
LocalizedUncounted(img, local_path) ==
    /\ updated_content' = ReplaceFirst(updated_content, img.full_match,
                                       LocalMarkup(img.alt_text, output_dir, local_path))
    /\ result' = result
    /\ idx' = idx + 1

\* lines 136-142 and 148-155: the reference is rewritten and counted
Localized(img, local_path) ==
    /\ updated_content' = ReplaceFirst(updated_content, img.full_match,
                                       LocalMarkup(img.alt_text, output_dir, local_path))
    /\ result' = [result EXCEPT !.images_downloaded = @ + 1]
    /\ idx' = idx + 1

AtRef == pc = "ref" /\ idx <= Len(images)

\* --------------------------------------------------------------- actions
\* A new ImageDownloader and process_directory up to its for loop.
StartRun ==
    /\ pc \in {"idle", "done", "raised"}
    /\ run < MaxRuns
    /\ run' = run + 1
    /\ cache' = <<>>
    /\ \E order \in Orders(Docs) : md_files' = order
    /\ results' = <<>>
    /\ pc' = "loop"
    /\ exc' = ""
    /\ fetches' = <<>>
    /\ outcomes' = <<>>
    /\ written' = {}
    /\ start' = [docs |-> docs,
                 saved |-> {assets[n].url : n \in DOMAIN assets},
                 clean |-> /\ pc = "done"
                           /\ \A d \in DOMAIN results : results[d].errors = <<>>]
    /\ UNCHANGED <<disk, frame, dl, apart>>

\* StartRunFails with _ensure_directory called after the documents are
\* listed and the first one is read.
StartRunFailsAfterRead ==
    /\ pc \in {"idle", "done", "raised"}
    /\ run < MaxRuns
    /\ run' = run + 1
    /\ cache' = <<>>
    /\ md_files' = <<>>
    /\ results' = <<>>
    /\ pc' = "raised"
    /\ exc' = "mkdir"
    /\ fetches' = <<>>
    /\ \E d \in Docs : outcomes' = (d :> <<>>)
    /\ written' = {}
    /\ start' = [docs |-> docs, saved |-> {assets[n].url : n \in DOMAIN assets},
                 clean |-> FALSE]
    /\ UNCHANGED <<disk, frame, dl, apart>>

\* _ensure_directory(self.images_dir) raises.
StartRunFails ==
    /\ pc \in {"idle", "done", "raised"}
    /\ run < MaxRuns
    /\ run' = run + 1
    /\ cache' = <<>>
    /\ md_files' = <<>>
    /\ results' = <<>>
    /\ pc' = "raised"
    /\ exc' = "mkdir"
    /\ fetches' = <<>>
    /\ outcomes' = <<>>
    /\ written' = {}
    /\ start' = [docs |-> docs, saved |-> {assets[n].url : n \in DOMAIN assets},
                 clean |-> FALSE]
    /\ UNCHANGED <<disk, frame, dl, apart>>

\* ReadFails without the try block of lines 112-116: the error of read_text
\* leaves process_file.
ReadFailsRaises ==
    /\ pc = "loop" /\ md_files # <<>>
    /\ outcomes' = (Head(md_files) :> <<[what |-> "unread", url |-> <<>>, pos |-> 0,
                                         name |-> ""]>>) @@ outcomes
    /\ Raise("read")
    /\ UNCHANGED <<disk, cache, dl, fetches, written, history, apart>>

\* process_file, lines 99-116: read_text raises.
ReadFails ==
    /\ pc = "loop" /\ md_files # <<>>
    /\ LET d == Head(md_files)
       IN  /\ Return(d, [NoResult EXCEPT !.ticket_key = _extract_ticket_key(d),
                                      !.errors = <<[url |-> <<>>,
                                                    error |-> "Failed to read file"]>>])
           /\ outcomes' = (d :> <<[what |-> "unread", url |-> <<>>, pos |-> 0,
                                    name |-> ""]>>) @@ outcomes
    /\ UNCHANGED <<disk, cache, exc, dl, fetches, written, history, apart>>

\* process_file, lines 99-125: the text is read and scanned.
ReadOk ==
    /\ pc = "loop" /\ md_files # <<>>
    /\ LET d == Head(md_files)
           found == _find_images(docs[d])
           r == [NoResult EXCEPT
                   !.ticket_key = _extract_ticket_key(d),
                   !.images_found = Cardinality({i \in 1..Len(found) : IsRemote(found[i].url)})]
       IN  /\ outcomes' = (d :> <<>>) @@ outcomes
           /\ IF found = <<>>
              THEN Return(d, r)
              ELSE /\ filepath' = d
                   /\ content' = docs[d]
                   /\ images' = found
                   /\ idx' = 1
                   /\ updated_content' = docs[d]
                   /\ result' = r
                   /\ pc' = "ref"
                   /\ UNCHANGED <<md_files, results>>
    /\ UNCHANGED <<disk, cache, exc, dl, fetches, written, history, apart>>

\* SkipLocal with the reference treated as a failed download: counted as
\* failed, with an error message.
SkipLocalAsFailure ==
    /\ AtRef
    /\ ~IsRemote(images[idx].url)
    /\ result' = [result EXCEPT !.images_failed = @ + 1,
                                !.errors = Append(@, [url |-> images[idx].url,
                                                      error |-> "Not a remote URL"])]
    /\ idx' = idx + 1
    /\ Note("skipped", "")
    /\ UNCHANGED <<disk, cache, pc, exc, md_files, results, filepath, content, images,
                   updated_content, dl, fetches, written, history, apart>>

\* lines 127-129
SkipLocal ==
    /\ AtRef
    /\ ~IsRemote(images[idx].url)
    /\ result' = [result EXCEPT !.images_skipped = @ + 1]
    /\ idx' = idx + 1
    /\ Note("skipped", "")
    /\ UNCHANGED <<disk, cache, pc, exc, md_files, results, filepath, content, images,
                   updated_content, dl, fetches, written, history, apart>>

\* lines 134-143
CacheHit ==
    /\ AtRef
    /\ IsRemote(images[idx].url)
    /\ images[idx].url \in DOMAIN cache
    /\ Localized(images[idx], cache[images[idx].url])
    /\ Note("hit", LocalFilename)
    /\ UNCHANGED <<disk, cache, pc, exc, md_files, results, filepath, content, images,
                   dl, fetches, written, history, apart>>

\* The reference the loop would download: remote and not in the cache.
ToFetch == AtRef /\ IsRemote(images[idx].url) /\ images[idx].url \notin DOMAIN cache

\* _download_image, lines 267-290: requests.get, raise_for_status,
\* _ensure_directory or mkstemp raises.
RequestFails ==
    /\ ToFetch
    /\ Fetch
    /\ \E kind \in {"http", "connection", "connect_timeout", "read_timeout",
                    "mkdir", "mkstemp"} :
          Failed(images[idx].url, LocalFilename, ErrorOf(kind))
    /\ UNCHANGED <<assets, imgTemps>>

\* _download_image, lines 267-293: the response arrives and the temporary
\* file is created; total is the number of chunks the body has.
RequestOk ==
    /\ ToFetch
    /\ Fetch
    /\ \E total \in 1..(MAX_IMAGE_SIZE + 1) :
          dl' = [url |-> images[idx].url,
                 name |-> LocalFilename,
                 size |-> 0, total |-> total]
    /\ imgTemps' = imgTemps \cup {[prefix |-> dl'.name, bytes |-> 0]}
    /\ pc' = "stream"
    /\ UNCHANGED <<docs, assets, docTemps, cache, exc, md_files, results, frame,
                   outcomes, written, history, apart>>

TempOf(name) == CHOOSE t \in imgTemps : t.prefix = name

\* StreamChunk without the test of line 297: every chunk is written.
StreamChunkUncapped ==
    /\ pc = "stream"
    /\ dl.size < dl.total
    /\ dl' = [dl EXCEPT !.size = @ + 1]
    /\ imgTemps' = (imgTemps \ {TempOf(dl.name)})
                      \cup {[prefix |-> dl.name, bytes |-> TempOf(dl.name).bytes + 1]}
    /\ UNCHANGED <<docs, assets, docTemps, cache, pc, exc, md_files, results,
                   frame, fetches, outcomes, written, history, apart>>

\* lines 295-299: one chunk is received and written, or breaks the cap
\* (lines 297-298, then the cleanup of lines 303-308).
StreamChunk ==
    /\ pc = "stream"
    /\ dl.size < dl.total
    /\ IF dl.size + 1 > MAX_IMAGE_SIZE
       THEN /\ imgTemps' = imgTemps \ {TempOf(dl.name)}
            /\ Failed(dl.url, dl.name, ErrorOf("oversize"))
            /\ UNCHANGED <<assets, fetches>>
       ELSE /\ dl' = [dl EXCEPT !.size = @ + 1]
            /\ imgTemps' = (imgTemps \ {TempOf(dl.name)})
                              \cup {[prefix |-> dl.name, bytes |-> TempOf(dl.name).bytes + 1]}
            /\ UNCHANGED <<docs, assets, docTemps, cache, pc, exc, md_files, results,
                           frame, fetches, outcomes, written, history, apart>>

\* StreamFails without the os.unlink of lines 303-307.
StreamFailsLeavesTemp ==
    /\ pc = "stream"
    /\ \E kind \in {"truncated", "write", "replace"} :
          /\ kind \in {"truncated", "write"} => dl.size < dl.total
          /\ kind = "replace" => dl.size = dl.total
          /\ Failed(dl.url, dl.name, ErrorOf(kind))
    /\ UNCHANGED <<assets, imgTemps, fetches>>

\* lines 295-308: the stream breaks, f.write raises or os.replace raises;
\* the temporary file is unlinked and the exception becomes a failure.
StreamFails ==
    /\ pc = "stream"
    /\ \E kind \in {"truncated", "write", "replace"} :
          /\ kind \in {"truncated", "write"} => dl.size < dl.total
          /\ kind = "replace" => dl.size = dl.total
          /\ Failed(dl.url, dl.name, ErrorOf(kind))
    /\ imgTemps' = imgTemps \ {TempOf(dl.name)}
    /\ UNCHANGED <<assets, fetches>>

\* StreamEnd with a cache that holds the last download only.
StreamEndForgets ==
    /\ pc = "stream"
    /\ dl.size = dl.total
    /\ assets' = (dl.name :> [url |-> dl.url, bytes |-> TempOf(dl.name).bytes,
                              total |-> dl.total]) @@ assets
    /\ imgTemps' = imgTemps \ {TempOf(dl.name)}
    /\ cache' = (dl.url :> Append(images_dir, dl.name))
    /\ Localized(images[idx], Append(images_dir, dl.name))
    /\ pc' = "ref"
    /\ dl' = NoDl
    /\ Note("ok", dl.name)
    /\ UNCHANGED <<docs, docTemps, exc, md_files, results, filepath, content, images,
                   fetches, written, history, apart>>

\* lines 301, 310 and 147-156: the rename, the cache entry and the rewrite.
StreamEnd ==
    /\ pc = "stream"
    /\ dl.size = dl.total
    /\ assets' = (dl.name :> [url |-> dl.url, bytes |-> TempOf(dl.name).bytes,
                              total |-> dl.total]) @@ assets
    /\ imgTemps' = imgTemps \ {TempOf(dl.name)}
    /\ cache' = (dl.url :> Append(images_dir, dl.name)) @@ cache
    /\ Localized(images[idx], Append(images_dir, dl.name))
    /\ pc' = "ref"
    /\ dl' = NoDl
    /\ Note("ok", dl.name)
    /\ UNCHANGED <<docs, docTemps, exc, md_files, results, filepath, content, images,
                   fetches, written, history, apart>>

AtEnd == pc = "ref" /\ idx > Len(images)

\* lines 162, 166: nothing changed, nothing is written.
ReturnUnchanged ==
    /\ AtEnd
    /\ updated_content = content
    /\ Return(filepath, result)
    /\ UNCHANGED <<disk, cache, exc, dl, fetches, outcomes, written, history, apart>>

\* WriteTemp without the test of line 162: the document is written whether
\* its text changed or not.
WriteTempAlways ==
    /\ AtEnd
    /\ docTemps' = docTemps \cup {[prefix |-> filepath, text |-> updated_content]}
    /\ written' = written \cup {filepath}
    /\ pc' = "replace"
    /\ UNCHANGED <<docs, assets, imgTemps, cache, exc, md_files, results, frame, dl,
                   fetches, outcomes, history, apart>>

\* _write_atomic, lines 334-342: the temporary file is created and written.
WriteTemp ==
    /\ AtEnd
    /\ updated_content # content
    /\ docTemps' = docTemps \cup {[prefix |-> filepath, text |-> updated_content]}
    /\ written' = written \cup {filepath}
    /\ pc' = "replace"
    /\ UNCHANGED <<docs, assets, imgTemps, cache, exc, md_files, results, frame, dl,
                   fetches, outcomes, history, apart>>

\* _write_atomic: mkstemp or f.write raises; the exception leaves
\* process_file (line 163 is in no try block) and process_directory.
WriteTempFails ==
    /\ AtEnd
    /\ updated_content # content
    /\ written' = written \cup {filepath}
    /\ Raise("write")
    /\ UNCHANGED <<disk, cache, dl, fetches, outcomes, history, apart>>

\* _write_atomic, line 343, then lines 164-166
ReplaceDoc ==
    /\ pc = "replace"
    /\ docs' = [docs EXCEPT ![filepath] = updated_content]
    /\ docTemps' = docTemps \ {t \in docTemps : t.prefix = filepath}
    /\ Return(filepath, result)
    /\ UNCHANGED <<assets, imgTemps, cache, exc, dl, fetches, outcomes, written, history, apart>>

\* _write_atomic, lines 343-349: os.replace raises, the temporary file is
\* unlinked and the exception is raised again.
ReplaceDocFails ==
    /\ pc = "replace"
    /\ docTemps' = docTemps \ {t \in docTemps : t.prefix = filepath}
    /\ Raise("write")
    /\ UNCHANGED <<docs, assets, imgTemps, cache, dl, fetches, outcomes, written, history, apart>>

\* process_directory, line 87
Finish ==
    /\ pc = "loop" /\ md_files = <<>>
    /\ pc' = "done"
    /\ UNCHANGED <<disk, cache, exc, md_files, results, frame, dl, fetches, outcomes, written,
                   history, apart>>

Next ==
    \/ StartRun
    \/ StartRunFails
    \/ ReadFails
    \/ ReadOk
    \/ SkipLocal
    \/ CacheHit
    \/ RequestFails
    \/ RequestOk
    \/ StreamChunk
    \/ StreamFails
    \/ StreamEnd
    \/ ReturnUnchanged
    \/ WriteTemp
    \/ WriteTempFails
    \/ ReplaceDoc
    \/ ReplaceDocFails
    \/ Finish

Spec == Init /\ [][Next]_vars


\* ------------------------------------------------------------- properties
Last(q) == q[Len(q)]

RemoteRefUrls == {<<UrlText(U1)>>, <<UrlText(U2)>>}

Fetched(url) == {i \in 1..Len(fetches) : fetches[i].url = url}

\* The documents read in this run, and what happened to their references.
Read == {d \in DOMAIN outcomes : \A k \in 1..Len(outcomes[d]) : outcomes[d][k].what # "unread"}
Unread == DOMAIN outcomes \ Read
Happened(d, what) == {k \in 1..Len(outcomes[d]) : outcomes[d][k].what \in what}

\* The text the reference noted as o had in the document when the run began.
OriginalMarkup(d, o) == SubSeq(start.docs[d], o.pos, o.pos + Len(o.url) + 1)

\* The text now at the place of the reference noted as o.
MarkupNow(d, o) == SubSeq(docs[d], o.pos, o.pos + Len(o.url) + 1)

\* The text at the place of o is a local reference to the asset file name.
PointsTo(d, o, name) ==
    /\ o.pos + 2 <= Len(docs[d])
    /\ docs[d][o.pos] = start.docs[d][o.pos]
    /\ docs[d][o.pos + 1].t = "url"
    /\ docs[d][o.pos + 1].u.scheme = ""
    /\ Resolve(output_dir, docs[d][o.pos + 1].u) = Append(images_dir, name)
    /\ docs[d][o.pos + 2] = Close
    /\ name \in DOMAIN assets

\* C1: within one run every distinct URL is requested over the network at
\* most once, whatever the mix of successes and failures.
C1_AtMostOneFetchPerUrl ==
    \A i, j \in 1..Len(fetches) : fetches[i].url = fetches[j].url => i = j

\* C2: when both documents of a completed run reference the same URL and no
\* download of it failed, the URL was requested exactly once and every
\* reference to it, in both documents, now points to one and the same
\* asset file.
C2_SharedUrlOneAsset ==
    pc = "done" =>
      \A url \in RemoteRefUrls :
        LET refs(d) == {k \in 1..Len(outcomes[d]) : outcomes[d][k].url = url}
        IN  (/\ Read = Docs
             /\ \A d \in Docs : refs(d) # {}
             /\ \A d \in Docs : \A k \in refs(d) : outcomes[d][k].what # "failed")
            => /\ Cardinality(Fetched(url)) = 1
               /\ \E name \in DOMAIN assets :
                    \A d \in Docs : \A k \in refs(d) :
                       PointsTo(d, outcomes[d][k], name)

\* C3: a run that follows a completed run without any error requests
\* nothing, writes no document and leaves every document as it found it.
C3_SecondRunIdle ==
    (run >= 2 /\ start.clean) => (fetches = <<>> /\ written = {} /\ docs = start.docs)

\* C4: a URL whose asset an earlier run saved is not requested again by a
\* later run, also when the earlier run stopped before writing the document.
C4_NoRedownload ==
    \A i \in 1..Len(fetches) : fetches[i].url \notin start.saved

\* C5 (the state it asserts after the run): when a run is over, for every
\* reference whose download failed in it the cache has no entry for the URL,
\* no file is at the destination path and the document still holds the
\* original markup at the reference's place.
C5_FailureLeavesNothing ==
    pc = "done" =>
      \A d \in Read : \A k \in Happened(d, {"failed"}) :
         LET o == outcomes[d][k]
         IN  /\ o.url \notin DOMAIN cache
             /\ o.name \notin DOMAIN assets
             /\ MarkupNow(d, o) = OriginalMarkup(d, o)

C7_PartialFailureIsolated ==
    pc = "done" =>
      \A d \in Read :
        /\ Len(outcomes[d]) = Len(_find_images(start.docs[d]))
        /\ \A k \in Happened(d, {"ok"}) :
              PointsTo(d, outcomes[d][k], outcomes[d][k].name)
        /\ \A k \in Happened(d, {"hit"}) :
              PointsTo(d, outcomes[d][k], Last(cache[outcomes[d][k].url]))
        /\ \A k \in Happened(d, {"failed"}) :
              MarkupNow(d, outcomes[d][k]) = OriginalMarkup(d, outcomes[d][k])
        /\ results[d].images_downloaded = Cardinality(Happened(d, {"ok", "hit"}))
        /\ results[d].images_failed = Cardinality(Happened(d, {"failed"}))
        /\ Len(results[d].errors) = Cardinality(Happened(d, {"failed"}))

\* C8: no failure of a reference or of a document leaves process_file: a run
\* that got past the creation of the asset directory never ends with an
\* exception, and returns a result for every document.
C8_NoFailureEscapes ==
    /\ pc = "raised" => exc = "mkdir"
    /\ pc = "done" => DOMAIN results = Docs

\* C9: a document whose read failed has a result of four zero counts and
\* exactly one error message, no request was made for it, it was not
\* written and is unchanged; the read failure raises nothing, so the loop
\* goes on to the remaining documents and a completed run has a result for
\* every document.
C9_ReadFailureIsolated ==
    /\ \A d \in Unread :
         /\ pc # "raised" =>
              /\ d \in DOMAIN results
              /\ results[d].images_found = 0
              /\ results[d].images_downloaded = 0
              /\ results[d].images_skipped = 0
              /\ results[d].images_failed = 0
              /\ Len(results[d].errors) = 1
         /\ \A i \in 1..Len(fetches) : fetches[i].doc # d
         /\ d \notin written
         /\ docs[d] = start.docs[d]
    /\ pc = "raised" => exc \in {"mkdir", "write"}
    /\ pc \in {"ref", "stream", "replace"} => filepath \notin Unread
    /\ pc = "done" => DOMAIN results = Docs

\* A download streams for a document after the read of the other one failed.
C9_Witness ==
    /\ pc = "stream"
    /\ Unread # {}
    /\ \A d \in Unread : d \in DOMAIN results

\* C10: a reference whose URL is not http(s) is never requested, is counted
\* as skipped without an error message, and its markup stays as it was.
C10_LocalUntouched ==
    /\ \A i \in 1..Len(fetches) : IsRemote(fetches[i].url)
    /\ \A d \in Read : \A k \in Happened(d, {"skipped"}) :
          MarkupNow(d, outcomes[d][k]) = OriginalMarkup(d, outcomes[d][k])
    /\ \A d \in Read \cap DOMAIN results :
          /\ results[d].images_skipped = Cardinality(Happened(d, {"skipped"}))
          /\ \A e \in 1..Len(results[d].errors) : IsRemote(results[d].errors[e].url)

\* The text of document d when every reference of it that was localized in
\* this run (downloaded or served from the cache) is replaced at the place
\* where it was scanned, and nothing else is touched.
RewrittenInPlace(d) ==
    [i \in 1..Len(start.docs[d]) |->
        LET at == {k \in Happened(d, {"ok", "hit"}) :
                      outcomes[d][k].pos <= i /\ i <= outcomes[d][k].pos + 2}
        IN  IF at = {} THEN start.docs[d][i]
            ELSE LET o == outcomes[d][CHOOSE k \in at : TRUE]
                 IN  LocalMarkup(start.docs[d][o.pos].alt, output_dir,
                                 cache[o.url])[i - o.pos + 1]]

\* C11: when a run is over, every read document is its text at the start of
\* the run with exactly the localized references replaced, each at the place
\* where it was scanned, and every other piece of text unchanged, whatever
\* the pattern of successes and failures and however often the same markup
\* occurs.
C11_RewriteExactOccurrence ==
    pc = "done" => \A d \in Read : docs[d] = RewrittenInPlace(d)


\* C14: the documents a run goes through are .md files right in output_dir,
\* each of them at most once; and the mapping process_directory returns has
\* an entry under the name of a file exactly when the file is a .md file
\* right in output_dir, each of them read (or tried) in this run.
C14_OneEntryPerDocument ==
    /\ \A i \in 1..Len(md_files) :
          /\ \E e \in Listing : e.file = md_files[i] /\ e.sub = <<>> /\ e.file.ext = ".md"
          /\ \A j \in 1..Len(md_files) : md_files[i] = md_files[j] => i = j
          /\ md_files[i] \in DOMAIN outcomes => (i = 1 /\ md_files[i] \notin DOMAIN results)
    /\ pc = "done" =>
          /\ \A e \in Listing :
                e.file \in DOMAIN results <=> (e.sub = <<>> /\ e.file.ext = ".md")
          /\ DOMAIN outcomes = DOMAIN results

\* A run is over that downloaded something, with a result for two documents.
C14_Witness ==
    /\ pc = "done"
    /\ Cardinality(DOMAIN results) = 2
    /\ fetches # <<>>
    /\ assets # <<>>


\* The counts of the remote and of the other references scanned in a text.
RemoteIn(text) ==
    LET found == _find_images(text)
    IN  Cardinality({i \in 1..Len(found) : IsRemote(found[i].url)})
OthersIn(text) ==
    LET found == _find_images(text)
    IN  Cardinality({i \in 1..Len(found) : ~IsRemote(found[i].url)})

\* C15: the result of every document that was read counts as found the
\* references of its text whose URL is http or https and as skipped all the
\* others, and has error messages for failed downloads only; the same holds
\* for the result in the making when the loop over the references is over.
C15_FoundAndSkippedCounts ==
    /\ \A d \in Read \cap DOMAIN results :
          /\ results[d].images_found = RemoteIn(start.docs[d])
          /\ results[d].images_skipped = OthersIn(start.docs[d])
          /\ results[d].images_skipped = Cardinality(Happened(d, {"skipped"}))
          /\ Len(results[d].errors) = Cardinality(Happened(d, {"failed"}))
    /\ (pc = "ref" /\ idx > Len(images)) =>
          /\ result.images_found = RemoteIn(content)
          /\ result.images_skipped = OthersIn(content)
          /\ Len(result.errors) = result.images_failed

\* A run is over with a document that has remote and other references.
C15_Witness ==
    /\ pc = "done"
    /\ \E d \in Read : results[d].images_found > 0 /\ results[d].images_skipped > 0


\* C16: when the asset directory cannot be created the run ends at once with
\* that error: no document was read, nothing was requested, no document was
\* written or changed, no asset was saved and no result is returned.
C16_MkdirFailureStopsRun ==
    exc = "mkdir" =>
      /\ pc = "raised"
      /\ outcomes = <<>>
      /\ fetches = <<>>
      /\ written = {}
      /\ docs = start.docs
      /\ docTemps = {}
      /\ {assets[n].url : n \in DOMAIN assets} = start.saved
      /\ results = <<>>

\* The asset directory could not be created in a run over documents that
\* have remote references.
C16_Witness ==
    /\ pc = "raised"
    /\ exc = "mkdir"
    /\ \E d \in Docs : RemoteIn(docs[d]) > 0


\* The k-th name tried for a reference of document d to url: the prefixed
\* name for k = 0, then the base name with -k before the extension.
Candidate(d, url, k) ==
    LET base_name == _extract_ticket_key(d) \o "-" \o url[1].u.name
    IN  IF k = 0 THEN base_name \o url[1].u.ext
        ELSE base_name \o "-" \o ToString(k) \o url[1].u.ext

\* C17: the name allocated for a download is no file of the asset directory;
\* it is the prefixed name when that is free and otherwise the base name
\* with suffix -k for the smallest k >= 1 that is free; and the references of
\* one document to distinct URLs that were downloaded are in distinct files,
\* each file holding the body of its own URL.
C17_AllocatedNameIsFree ==
    /\ pc = "stream" =>
          /\ dl.name \notin DOMAIN assets
          /\ \E k \in 0..Cardinality(DOMAIN assets) :
                /\ dl.name = Candidate(filepath, dl.url, k)
                /\ \A j \in 0..(k - 1) : Candidate(filepath, dl.url, j) \in DOMAIN assets
    /\ \A d \in Read :
          \A k1, k2 \in Happened(d, {"ok"}) :
             /\ outcomes[d][k1].name \in DOMAIN assets
             /\ assets[outcomes[d][k1].name].url = outcomes[d][k1].url
             /\ outcomes[d][k1].url # outcomes[d][k2].url
                   => outcomes[d][k1].name # outcomes[d][k2].name

\* A second URL of the same document with the same base name is being
\* downloaded under the name with suffix -1.
C17_Witness ==
    /\ pc = "stream"
    /\ dl.name = "PROJ-1-x-1.png"
    /\ \E k \in Happened(filepath, {"ok"}) :
          /\ outcomes[filepath][k].name = "PROJ-1-x.png"
          /\ outcomes[filepath][k].url # dl.url


\* C20: for a reference served from the cache no name was allocated and no
\* request was made (every request of a document belongs to a reference
\* that was downloaded, failed, or is being downloaded), and the reference
\* is counted as downloaded, not as failed or skipped.
C20_CacheHitInvokesNothing ==
    /\ \A d \in Read : \A k \in Happened(d, {"hit"}) : outcomes[d][k].name = ""
    /\ \A d \in Read :
          Cardinality({i \in 1..Len(fetches) : fetches[i].doc = d})
             = Cardinality(Happened(d, {"ok", "failed"}))
                  + (IF pc = "stream" /\ filepath = d THEN 1 ELSE 0)
    /\ \A d \in Read \cap DOMAIN results :
          /\ results[d].images_downloaded = Cardinality(Happened(d, {"ok", "hit"}))
          /\ results[d].images_failed = Cardinality(Happened(d, {"failed"}))
          /\ results[d].images_skipped = Cardinality(Happened(d, {"skipped"}))


\* C21: no temporary file of a download ever holds more than MAX_IMAGE_SIZE,
\* a download that is streaming has received at most that much, every asset
\* file is a complete body of at most MAX_IMAGE_SIZE, and right after a
\* download was aborted for its size it is noted as failed and neither a
\* temporary file nor a file at its destination path is there.
C21_SizeCap ==
    /\ \A t \in imgTemps : t.bytes <= MAX_IMAGE_SIZE
    /\ pc = "stream" => dl.size <= MAX_IMAGE_SIZE
    /\ \A n \in DOMAIN assets :
          assets[n].total <= MAX_IMAGE_SIZE /\ assets[n].bytes = assets[n].total
    /\ (/\ pc = "ref"
        /\ result.errors # <<>>
        /\ Last(result.errors).error = ErrorOf("oversize")
        /\ Last(outcomes[filepath]).what = "failed")
       => /\ imgTemps = {}
          /\ Last(outcomes[filepath]).name \notin DOMAIN assets
          /\ Last(outcomes[filepath]).url \notin DOMAIN cache

\* A body of exactly MAX_IMAGE_SIZE was saved and, in the same document, a
\* download was aborted for its size.
C21_Witness ==
    /\ pc = "ref"
    /\ \E e \in 1..Len(result.errors) : result.errors[e].error = ErrorOf("oversize")
    /\ \E n \in DOMAIN assets : assets[n].bytes = MAX_IMAGE_SIZE
    /\ Happened(filepath, {"ok"}) # {}


\* C24: a document is written back exactly when its text changed.  A
\* document none of whose references was downloaded or found in the cache
\* (no reference, local references only, failed downloads only) is never
\* handed to _write_atomic; a temporary file is only ever made for a document
\* being written, with a text that differs from the document's; a returned
\* document differs from what the run found exactly when it was written; and
\* the only step
\* that changes a document puts the complete new text, already in the
\* temporary file, in its place.
C24_WrittenIffChanged ==
    /\ [](/\ \A d \in written : Happened(d, {"ok", "hit"}) # {}
          /\ \A t \in docTemps :
                /\ t.prefix \in written
                /\ t.text # start.docs[t.prefix]
          /\ \A d \in DOMAIN docs : docs[d] # start.docs[d] => d \in written
          /\ \A d \in DOMAIN results : d \in written => docs[d] # start.docs[d])
    /\ [][\A d \in DOMAIN docs :
             docs'[d] # docs[d] =>
                /\ pc = "replace"
                /\ d = filepath
                /\ docs[d] = content
                /\ docs'[d] = updated_content
                /\ [prefix |-> d, text |-> updated_content] \in docTemps]_vars

\* A run has returned a document it rewrote and a document whose only
\* download failed, which it did not write.
C24_Witness ==
    /\ pc = "loop"
    /\ \E d \in DOMAIN results : d \in written /\ docs[d] # start.docs[d]
    /\ \E d \in DOMAIN results :
          /\ Happened(d, {"failed"}) # {}
          /\ Happened(d, {"ok", "hit"}) = {}
          /\ d \notin written
          /\ docs[d] = start.docs[d]

\* The sum of a count over the results a run returned (cli.py lines 445-448)
RECURSIVE SumOver(_, _)
SumOver(ds, field) ==
    IF ds = {} THEN 0
    ELSE LET d == CHOOSE x \in ds : TRUE
         IN  results[d][field] + SumOver(ds \ {d}, field)
TotalOf(field) == SumOver(DOMAIN results, field)

\* C28: in the result of every document that was read, images_found is
\* images_downloaded plus images_failed and there are as many error messages
\* as failures, also in the result process_file is about to return; and the
\* totals over the results of a run satisfy found = downloaded + failed.
C28_FoundIsDownloadedPlusFailed ==
    /\ \A d \in Read \cap DOMAIN results :
          /\ results[d].images_found
                = results[d].images_downloaded + results[d].images_failed
          /\ Len(results[d].errors) = results[d].images_failed
    /\ (pc = "ref" /\ idx > Len(images)) =>
          /\ result.images_found = result.images_downloaded + result.images_failed
          /\ Len(result.errors) = result.images_failed
    /\ pc = "done" =>
          TotalOf("images_found") = TotalOf("images_downloaded") + TotalOf("images_failed")

\* A run is over in which references were downloaded and downloads failed.
C28_Witness ==
    /\ pc = "done"
    /\ TotalOf("images_downloaded") > 0
    /\ TotalOf("images_failed") > 0
    /\ \E d \in DOMAIN results : results[d].images_found >= 2

\* C29: the download cache in every state of a run.  Every entry belongs to
\* a download of its URL that succeeded in this run; its path is that of a
\* file of the asset directory, which holds the body of that URL; two URLs
\* never have the same path; and within a run no step changes or removes an
\* entry.
C29_CacheInvariant ==
    /\ [](/\ \A u \in DOMAIN cache :
                /\ \E d \in Read : \E k \in Happened(d, {"ok"}) :
                      /\ outcomes[d][k].url = u
                      /\ cache[u] = Append(images_dir, outcomes[d][k].name)
                /\ Last(cache[u]) \in DOMAIN assets
                /\ assets[Last(cache[u])].url = u
          /\ \A u, v \in DOMAIN cache : cache[u] = cache[v] => u = v)
    /\ [][run' = run =>
             \A u \in DOMAIN cache : u \in DOMAIN cache' /\ cache'[u] = cache[u]]_vars

\* The cache of a run holds two URLs, and a reference was served from it.
C29_Witness ==
    /\ Cardinality(DOMAIN cache) = 2
    /\ \E d \in Read : Happened(d, {"hit"}) # {}

\* C30: a download never overwrites an asset.  The name a download streams
\* to is no file of the asset directory, and no step, in any run, changes
\* or removes a file of the asset directory: what the rename puts there is
\* a new file.
C30_AssetsNeverOverwritten ==
    /\ [](pc = "stream" => dl.name \notin DOMAIN assets)
    /\ [][\A n \in DOMAIN assets : n \in DOMAIN assets' /\ assets'[n] = assets[n]]_vars

\* In a second run a download of a URL is streaming while the asset
\* directory holds a file an earlier download of the same URL left.
C30_Witness ==
    /\ run = 2
    /\ pc = "stream"
    /\ \E n \in DOMAIN assets : assets[n].url = dl.url

\* ============================================================================
\* Classification of a reference and the credentials of its request
\* (__init__ lines 60-64, _find_images, _is_jira_url, _download_image lines
\* 268-281), followed for one downloader and one reference at a time.
\* ============================================================================

\* All the variables of the runs of process_directory.
pipeline == <<docs, assets, imgTemps, docTemps, cache, pc, exc, md_files, results, filepath,
              content, images, idx, updated_content, result, dl, run, fetches, outcomes,
              written, start>>

\* No run of process_directory is being followed.
PipelineOff ==
    /\ docs = [e \in {x.file : x \in Listing} |-> <<>>]
    /\ assets = <<>>
    /\ imgTemps = {}
    /\ docTemps = {}
    /\ cache = <<>>
    /\ pc = "idle"
    /\ exc = ""
    /\ md_files = <<>>
    /\ results = <<>>
    /\ filepath = NoDoc
    /\ content = <<>>
    /\ images = <<>>
    /\ idx = 0
    /\ updated_content = <<>>
    /\ result = NoResult
    /\ dl = NoDl
    /\ run = 0
    /\ fetches = <<>>
    /\ outcomes = <<>>
    /\ written = {}
    /\ start = [docs |-> docs, saved |-> {}, clean |-> FALSE]

\* https://cdn.example/rest/api/3/attachment/content/x.png
U3 == [scheme |-> "https", host |-> "cdn.example",
       dir |-> <<"rest", "api", "3", "attachment", "content">>, name |-> "x", ext |-> ".png"]
\* https://jira.example/rest/api/3/attachment/content/x.png
U4 == [scheme |-> "https", host |-> "jira.example",
       dir |-> <<"rest", "api", "3", "attachment", "content">>, name |-> "x", ext |-> ".png"]
\* https://jira.example:8443/secure/attachment/1/x.png
U5 == [scheme |-> "https", host |-> "jira.example:8443",
       dir |-> <<"secure", "attachment", "1">>, name |-> "x", ext |-> ".png"]

\* The URL texts a reference may hold.
RefUrls == {U1, U2, U3, U4, U5, LocalU}

\* The values of jira_url: none, two trackers, and a host written without
\* its scheme.
TrackerUrls ==
    { [scheme |-> "", host |-> ""],
      [scheme |-> "https", host |-> "jira.example"],
      [scheme |-> "https", host |-> "jira.other"],
      [scheme |-> "", host |-> "jira.example"] }

StatusCodes == {404, 500}
Usernames == {"", "bot"}
ApiTokens == {"", "secret"}

\* urlparse(url).netloc: what stands between "//" and the next "/"
Netloc(u) == IF u.scheme = "" THEN "" ELSE u.host

\* The pieces of the URL text between its slashes, and the pieces that have
\* a slash right before them.
Pieces(u) ==
    IF u.scheme = "" THEN u.dir \o <<u.name \o u.ext>>
    ELSE <<u.host>> \o u.dir \o <<u.name \o u.ext>>
AfterSlash(u) == IF u.scheme = "" THEN 2..Len(Pieces(u)) ELSE 1..Len(Pieces(u))

\* '/p1/.../pn/' in url
InUrl(path, u) ==
    \E i \in AfterSlash(u) :
       /\ i + Len(path) - 1 < Len(Pieces(u))
       /\ SubSeq(Pieces(u), i, i + Len(path) - 1) = path

\* _is_jira_url for a downloader of tracker domain domain, on a URL that is
\* one piece of URL text.
_is_jira_url(domain, url) ==
    IF domain = "" THEN FALSE
    ELSE \/ Netloc(url[1].u) = domain
         \/ (InUrl(<<"rest", "api">>, url[1].u) /\ InUrl(<<"attachment">>, url[1].u))

\* _download_image with credentials whenever they are configured, whatever
\* the origin of the reference.
AuthAnyOrigin(is_jira) ==
    IF jira_username # "" /\ jira_api_token # ""
    THEN <<jira_username, jira_api_token>> ELSE <<>>

\* _download_image, lines 269-272: the auth argument of requests.get
Auth(is_jira) ==
    IF is_jira /\ jira_username # "" /\ jira_api_token # ""
    THEN <<jira_username, jira_api_token>> ELSE <<>>

\* __init__ of a downloader for one of the configurations.
NewDownloader ==
    /\ \E jira_url \in TrackerUrls : jira_domain' = Netloc(jira_url)
    /\ jira_username' \in Usernames
    /\ jira_api_token' \in ApiTokens
    /\ info' = NoInfo
    /\ request' = NoRequest
    /\ download_result' = NoDownload
    /\ UNCHANGED <<pipeline, writer, elsewhere>>

\* _find_images builds the ImageInfo of a reference.
FindImage ==
    /\ \E u \in RefUrls :
          info' = [url |-> <<UrlText(u)>>,
                   is_jira |-> _is_jira_url(jira_domain, <<UrlText(u)>>)]
    /\ request' = NoRequest
    /\ download_result' = NoDownload
    /\ UNCHANGED <<jira_domain, jira_username, jira_api_token, pipeline, writer, elsewhere>>

\* process_file lines 127, 145 and _download_image lines 268-281: the request
\* for a remote reference.
SendRequest ==
    /\ info # NoInfo
    /\ IsRemote(info.url)
    /\ request = NoRequest
    /\ request' = [url |-> info.url, auth |-> Auth(info.is_jira)]
    /\ UNCHANGED <<jira_domain, jira_username, jira_api_token, info, download_result,
                   pipeline, writer, elsewhere>>

\* What the request and the reading of the response raise (lines 274-282).
RequestExceptions ==
    {HTTPError(c) : c \in StatusCodes}
      \cup {Raised(c) : c \in {"ConnectionError", "ConnectTimeout", "ReadTimeout"}}

\* What the streaming of the body into the temporary file raises
\* (lines 291-303).
StreamExceptions ==
    {SizeExceeded} \cup {Raised(c) : c \in {"ConnectionError", "ChunkedEncodingError",
                                             "OSError"}}

\* _download_image, lines 312-319: an exception of the request or of the
\* streaming is caught and returned as a failed DownloadResult.
DownloadFails ==
    /\ request # NoRequest
    /\ download_result = NoDownload
    /\ \E phase \in {"request", "stream"} :
          \E e \in (IF phase = "request" THEN RequestExceptions ELSE StreamExceptions) :
             download_result' = [success |-> FALSE, error |-> DownloadError(e),
                                 raised |-> e, phase |-> phase]
    /\ UNCHANGED <<jira_domain, jira_username, jira_api_token, info, request,
                   pipeline, writer, elsewhere>>

\* _download_image, line 310: nothing was raised.
DownloadSucceeds ==
    /\ request # NoRequest
    /\ download_result = NoDownload
    /\ download_result' = [success |-> TRUE, error |-> "", raised |-> NoException,
                           phase |-> "done"]
    /\ UNCHANGED <<jira_domain, jira_username, jira_api_token, info, request,
                   pipeline, writer, elsewhere>>

ClassifierInit ==
    /\ PipelineOff
    /\ WriterOff
    /\ ElsewhereOff
    /\ \E jira_url \in TrackerUrls : jira_domain = Netloc(jira_url)
    /\ jira_username \in Usernames
    /\ jira_api_token \in ApiTokens
    /\ info = NoInfo
    /\ request = NoRequest
    /\ download_result = NoDownload

ClassifierNext ==
    \/ NewDownloader
    \/ FindImage
    \/ SendRequest
    \/ DownloadFails
    \/ DownloadSucceeds

ClassifierSpec == ClassifierInit /\ [][ClassifierNext]_vars

\* C12: a request carries the tracker's username and API token exactly when
\* the reference was classified as private origin and both username and API
\* token are configured; in every other case it carries no credentials.
C12_CredentialsIffPrivateAndConfigured ==
    request # NoRequest =>
      /\ request.url = info.url
      /\ (info.is_jira /\ jira_username # "" /\ jira_api_token # "")
            => request.auth = <<jira_username, jira_api_token>>
      /\ ~(info.is_jira /\ jira_username # "" /\ jira_api_token # "")
            => request.auth = <<>>

\* A request for a private-origin reference went out with the credentials.
C12_Witness ==
    /\ request # NoRequest
    /\ info.is_jira
    /\ request.auth = <<"bot", "secret">>

\* C13: a reference is classified as private origin only when its host is
\* the tracker's, and a request to any other host carries no credentials.
C13_PrivateOnlyOnTrackerHost ==
    /\ info.is_jira => Netloc(info.url[1].u) = jira_domain
    /\ (request # NoRequest /\ request.auth # <<>>)
          => Netloc(request.url[1].u) = jira_domain


\* C22: every failure of a download is returned as a DownloadResult with
\* success false and the reason of its class: an HTTP status error carries
\* its status code, a connection failure reads "Connection failed", every
\* timeout, of the connect or of the read, reads "Request timed out", and a
\* breach of the size cap reads as the size being exceeded.
C22_FailureReportedByClass ==
    (download_result # NoDownload /\ ~download_result.success) =>
      LET e == download_result.raised
      IN /\ e.class = "HTTPError" => download_result.error = "HTTP " \o ToString(e.status)
         /\ e.class = "ConnectionError" => download_result.error = "Connection failed"
         /\ e.class \in {"ConnectTimeout", "ReadTimeout"}
               => download_result.error = "Request timed out"
         /\ e = SizeExceeded => download_result.error = "Image exceeds maximum size"

\* ============================================================================
\* FileWriter (src/jira_to_markdown/file_writer.py): one writer and its
\* output directory.  File names and the texts they are made from are
\* sequences of characters.
\* ============================================================================
NAME_MAX == 255

Md == <<".", "m", "d">>

\* A filename format is a sequence of literal texts and of {field}s.
Lit(chars) == [field |-> "", lit |-> chars]
Field(name) == [field |-> name, lit |-> <<>>]

\* "{key}.md", "{key}-{summary}.md", "{project}-{key}.md", "{created}-{key}.md"
Formats ==
    { <<Field("key"), Lit(Md)>>,
      <<Field("key"), Lit(<<"-">>), Field("summary"), Lit(Md)>>,
      <<Field("project"), Lit(<<"-">>), Field("key"), Lit(Md)>>,
      <<Field("created"), Lit(<<"-">>), Field("key"), Lit(Md)>> }

TicketKeys == {<<"T", "-", "1">>, <<"T", "-", "2">>}
Contents == {"v1", "v2"}

\* ticket_data: None (NoData) and a ticket with summary "a/b" created on
\* 2024-01-01.
NoDate == [year |-> 0, month |-> 0, day |-> 0]
TicketData ==
    { NoData,
      [summary |-> <<"a", "/", "b">>, created |-> [year |-> 2024, month |-> 1, day |-> 1]] }

Max(S) == CHOOSE m \in S : \A n \in S : m >= n

Digit(n) == <<"0", "1", "2", "3", "4", "5", "6", "7", "8", "9">>[n + 1]

\* datetime.strftime('%Y%m%d')
Strftime(dt) ==
    <<Digit(dt.year \div 1000), Digit((dt.year \div 100) % 10), Digit((dt.year \div 10) % 10),
      Digit(dt.year % 10), Digit(dt.month \div 10), Digit(dt.month % 10),
      Digit(dt.day \div 10), Digit(dt.day % 10)>>

\* lines 103-111: the variables of the format ('updated' is filled like
\* 'created'; no format of this model names it)
Variables(ticket_key, ticket_data) ==
    LET key == ("key" :> ticket_key)
        summary == IF ticket_data # NoData THEN ("summary" :> ticket_data.summary) @@ key
                   ELSE key
    IN  IF ticket_data # NoData /\ ticket_data.created # NoDate
        THEN ("created" :> Strftime(ticket_data.created)) @@ summary
        ELSE summary

\* str.format(**variables) when every field has a variable
RECURSIVE Formatted(_, _)
Formatted(parts, variables) ==
    IF parts = <<>> THEN <<>>
    ELSE (IF Head(parts).field = "" THEN Head(parts).lit ELSE variables[Head(parts).field])
            \o Formatted(Tail(parts), variables)

Illegal == {"<", ">", ":", "\"", "/", "\\", "|", "?", "*"}

RECURSIVE StripLeft(_)
StripLeft(chars) ==
    IF chars # <<>> /\ Head(chars) \in {".", " "} THEN StripLeft(Tail(chars)) ELSE chars

RECURSIVE StripRight(_)
StripRight(chars) ==
    IF chars # <<>> /\ chars[Len(chars)] \in {".", " "}
    THEN StripRight(SubSeq(chars, 1, Len(chars) - 1)) ELSE chars

\* os.path.splitext on a name that does not start with a dot: the index of
\* the dot the extension starts at, Len + 1 when there is none
ExtAt(chars) ==
    LET dots == {i \in 1..Len(chars) : chars[i] = "."}
    IN  IF dots = {} THEN Len(chars) + 1 ELSE Max(dots)

\* name[:n]
Prefix(chars, n) ==
    IF n >= 0 THEN SubSeq(chars, 1, IF n < Len(chars) THEN n ELSE Len(chars))
    ELSE SubSeq(chars, 1, IF Len(chars) + n > 0 THEN Len(chars) + n ELSE 0)

\* FileWriter._sanitize_filename, lines 136-152
FileWriter_sanitize_filename(filename) ==
    LET subbed == [i \in 1..Len(filename) |->
                      IF filename[i] \in Illegal THEN "_" ELSE filename[i]]
        stripped == StripRight(StripLeft(subbed))
        ext == SubSeq(stripped, ExtAt(stripped), Len(stripped))
        name == SubSeq(stripped, 1, ExtAt(stripped) - 1)
        cut == IF Len(stripped) > NAME_MAX THEN Prefix(name, NAME_MAX - Len(ext)) \o ext
               ELSE stripped
    IN  IF cut = <<>> THEN <<"u", "n", "n", "a", "m", "e", "d">> \o Md ELSE cut

\* FileWriter._generate_filename, lines 103-122: a field without a variable
\* is a KeyError and gives "<key>.md".
FileWriter_generate_filename(ticket_key, ticket_data) ==
    LET variables == Variables(ticket_key, ticket_data)
        known == \A i \in 1..Len(filename_format) :
                    filename_format[i].field # "" =>
                       filename_format[i].field \in DOMAIN variables
    IN  FileWriter_sanitize_filename(
           IF known THEN Formatted(filename_format, variables) ELSE ticket_key \o Md)

\* The content of a file of the output directory, "" when there is none.
Had(path) == IF path \in DOMAIN out_files THEN out_files[path] ELSE ""

\* write_ticket that never skips: the file is written whether it exists or
\* not.
SkipsNever(path) == FALSE

\* line 57: not self.overwrite and os.path.exists(path)
Skips(path) == ~overwrite /\ path \in DOMAIN out_files

\* write_ticket, lines 53-59: the file exists and is left alone.
WriteTicketSkips ==
    /\ call = NoCall
    /\ calls < MaxCalls
    /\ calls' = calls + 1
    /\ \E ticket_key \in TicketKeys, markdown_content \in Contents, ticket_data \in TicketData :
          LET path == FileWriter_generate_filename(ticket_key, ticket_data)
          IN  /\ Skips(path)
              /\ ret' = [op |-> "write_ticket", ticket_key |-> ticket_key,
                         markdown_content |-> markdown_content, ticket_data |-> ticket_data,
                         filepath |-> path, answer |-> FALSE, raised |-> "",
                         had |-> Had(path)]
    /\ UNCHANGED <<overwrite, filename_format, out_files, out_temps, call, wrote, pipeline,
                   classifier, elsewhere>>

\* write_ticket, lines 53-63 and _write_atomic, lines 186-199: the temporary
\* file is created and written.
WriteTicketBegins ==
    /\ call = NoCall
    /\ calls < MaxCalls
    /\ calls' = calls + 1
    /\ \E ticket_key \in TicketKeys, markdown_content \in Contents, ticket_data \in TicketData :
          LET path == FileWriter_generate_filename(ticket_key, ticket_data)
          IN  /\ ~Skips(path)
              /\ call' = [ticket_key |-> ticket_key, markdown_content |-> markdown_content,
                          ticket_data |-> ticket_data, filepath |-> path,
                          had |-> Had(path)]
              /\ out_temps' = out_temps \cup {[prefix |-> path,
                                               content |-> markdown_content]}
    /\ UNCHANGED <<overwrite, filename_format, out_files, ret, wrote, pipeline, classifier, elsewhere>>

\* write_ticket, lines 53-67 and _write_atomic, lines 190-199:
\* NamedTemporaryFile raises (no file is left), or temp_file.write raises
\* (the file, made with delete=False, stays with what was written of it);
\* write_ticket raises FileWriteError.
WriteTicketTempFails ==
    /\ call = NoCall
    /\ calls < MaxCalls
    /\ calls' = calls + 1
    /\ \E ticket_key \in TicketKeys, markdown_content \in Contents, ticket_data \in TicketData :
          LET path == FileWriter_generate_filename(ticket_key, ticket_data)
          IN  /\ ~Skips(path)
              /\ ret' = [op |-> "write_ticket", ticket_key |-> ticket_key,
                         markdown_content |-> markdown_content, ticket_data |-> ticket_data,
                         filepath |-> path, answer |-> FALSE,
                         raised |-> "FileWriteError", had |-> Had(path)]
              /\ \/ out_temps' = out_temps
                 \/ out_temps' = out_temps \cup {[prefix |-> path, content |-> ""]}
    /\ UNCHANGED <<overwrite, filename_format, out_files, call, wrote, pipeline, classifier, elsewhere>>

\* The temporary file of the call that is inside _write_atomic.
TempOfCall == [prefix |-> call.filepath, content |-> call.markdown_content]

\* _write_atomic, line 203, then write_ticket, lines 64-65
WriteTicketReplaces ==
    /\ call # NoCall
    /\ out_files' = (call.filepath :> call.markdown_content) @@ out_files
    /\ out_temps' = out_temps \ {TempOfCall}
    /\ ret' = [op |-> "write_ticket", ticket_key |-> call.ticket_key,
               markdown_content |-> call.markdown_content, ticket_data |-> call.ticket_data,
               filepath |-> call.filepath, answer |-> FALSE, raised |-> "",
               had |-> call.had]
    /\ wrote' = wrote \cup {call.ticket_key}
    /\ call' = NoCall
    /\ UNCHANGED <<overwrite, filename_format, calls, pipeline, classifier, elsewhere>>

\* _write_atomic, lines 203-210, then write_ticket, lines 66-67: os.replace
\* raises; os.remove takes the temporary file away, or raises too and is
\* passed over.
WriteTicketReplaceFails ==
    /\ call # NoCall
    /\ \/ out_temps' = out_temps \ {TempOfCall}
       \/ out_temps' = out_temps
    /\ ret' = [op |-> "write_ticket", ticket_key |-> call.ticket_key,
               markdown_content |-> call.markdown_content, ticket_data |-> call.ticket_data,
               filepath |-> call.filepath, answer |-> FALSE, raised |-> "FileWriteError",
               had |-> call.had]
    /\ call' = NoCall
    /\ UNCHANGED <<overwrite, filename_format, out_files, wrote, calls, pipeline, classifier, elsewhere>>

\* file_exists, lines 239-241
FileExists ==
    /\ call = NoCall
    /\ calls < MaxCalls
    /\ calls' = calls + 1
    /\ \E ticket_key \in TicketKeys :
          LET path == FileWriter_generate_filename(ticket_key, NoData)
          IN  ret' = [op |-> "file_exists", ticket_key |-> ticket_key,
                      markdown_content |-> "", ticket_data |-> NoData,
                      filepath |-> path, answer |-> path \in DOMAIN out_files,
                      raised |-> "", had |-> Had(path)]
    /\ UNCHANGED <<overwrite, filename_format, out_files, out_temps, call, wrote, pipeline,
                   classifier, elsewhere>>

\* A FileWriter has been made for an empty output directory.
WriterInit ==
    /\ PipelineOff
    /\ ClassifierOff
    /\ ElsewhereOff
    /\ overwrite \in BOOLEAN
    /\ filename_format \in Formats
    /\ out_files = <<>>
    /\ out_temps = {}
    /\ call = NoCall
    /\ ret = NoRet
    /\ wrote = {}
    /\ calls = 0

WriterNext ==
    \/ WriteTicketSkips
    \/ WriteTicketBegins
    \/ WriteTicketTempFails
    \/ WriteTicketReplaces
    \/ WriteTicketReplaceFails
    \/ FileExists

WriterSpec == WriterInit /\ [][WriterNext]_vars


\* C18: when the last call that ended is a write_ticket: with overwrite
\* disabled and the ticket's file there when the call began, the call raised
\* nothing, returned the path of that file, and the file has the content it
\* had; and whenever the call wrote (overwrite enabled, or no file there) and
\* raised nothing, the file at the returned path has exactly the content of
\* that call.
C18_OverwriteOnlyWhenEnabled ==
    (ret.op = "write_ticket" /\ call = NoCall) =>
      /\ (~overwrite /\ ret.had # "") =>
            /\ ret.raised = ""
            /\ ret.filepath = FileWriter_generate_filename(ret.ticket_key, ret.ticket_data)
            /\ ret.filepath \in DOMAIN out_files
            /\ out_files[ret.filepath] = ret.had
      /\ ((overwrite \/ ret.had = "") /\ ret.raised = "") =>
            /\ ret.filepath \in DOMAIN out_files
            /\ out_files[ret.filepath] = ret.markdown_content
      /\ ret.raised # "" => Had(ret.filepath) = ret.had

\* With overwrite disabled, write_ticket was called with content v2 for a
\* ticket whose file held v1, and ended.
C18_Witness ==
    /\ ret.op = "write_ticket"
    /\ call = NoCall
    /\ ~overwrite
    /\ ret.had = "v1"
    /\ ret.markdown_content = "v2"

\* C19: file_exists(key) answers true exactly when write_ticket has written
\* a file for that key before, whatever the filename format.
C19_FileExistsAfterWrite ==
    ret.op = "file_exists" => (ret.answer <=> ret.ticket_key \in wrote)

\* ============================================================================
\* The two _sanitize_filename methods (image_downloader.py lines 244-253,
\* file_writer.py lines 124-152), applied to texts given as sequences of
\* characters.
\* ============================================================================
MaxMid == 2

IMAGE_NAME_MAX == 200

\* The characters of the texts: a letter, the two characters strip('. ')
\* removes and one of the characters re.sub replaces.
Alphabet == {"a", ".", " ", "/"}

\* c repeated n times
Rep(c, n) == [i \in 1..n |-> c]

\* The lengths of the runs of letters: short ones and the ones that bring a
\* text to either length limit.
RunLengths ==
    {0, 1, 2} \cup {limit + d : limit \in {IMAGE_NAME_MAX, NAME_MAX}, d \in {-2, -1, 0, 1}}

\* The texts: a run of letters, up to MaxMid characters of any kind, a run
\* of letters.
Texts ==
    {Rep("a", n) \o mid \o Rep("a", m) :
        n \in RunLengths, m \in RunLengths,
        mid \in UNION {[1..k -> Alphabet] : k \in 0..MaxMid}}

\* ImageDownloader._sanitize_filename, lines 246-253
ImageDownloader_sanitize_filename(filename) ==
    LET subbed == [i \in 1..Len(filename) |->
                      IF filename[i] \in Illegal THEN "_" ELSE filename[i]]
        stripped == StripRight(StripLeft(subbed))
        ext == SubSeq(stripped, ExtAt(stripped), Len(stripped))
        name == SubSeq(stripped, 1, ExtAt(stripped) - 1)
        cut == IF Len(stripped) > IMAGE_NAME_MAX
               THEN Prefix(name, IMAGE_NAME_MAX - Len(ext)) \o ext
               ELSE stripped
    IN  IF cut = <<>> THEN <<"i", "m", "a", "g", "e", ".", "p", "n", "g">> ELSE cut

\* A call of ImageDownloader._sanitize_filename with the text.
SanitizeImageName ==
    /\ ~clean.image.done
    /\ clean' = [clean EXCEPT !.image =
                    [done |-> TRUE, name |-> ImageDownloader_sanitize_filename(raw)]]
    /\ UNCHANGED <<raw, pipeline, classifier, writer, concurrent, pager>>

\* A call of FileWriter._sanitize_filename with the text.
SanitizeFileName ==
    /\ ~clean.file.done
    /\ clean' = [clean EXCEPT !.file =
                    [done |-> TRUE, name |-> FileWriter_sanitize_filename(raw)]]
    /\ UNCHANGED <<raw, pipeline, classifier, writer, concurrent, pager>>

SanitizerInit ==
    /\ PipelineOff
    /\ ClassifierOff
    /\ WriterOff
    /\ ConcurrentOff
    /\ PagerOff
    /\ raw \in Texts
    /\ clean = [image |-> NotCalled, file |-> NotCalled]

SanitizerNext ==
    \/ SanitizeImageName
    \/ SanitizeFileName

SanitizerSpec == SanitizerInit /\ [][SanitizerNext]_vars

\* The text after re.sub and strip('. '), and the extension splitext finds
\* in it.
Stripped(filename) ==
    StripRight(StripLeft([i \in 1..Len(filename) |->
                             IF filename[i] \in Illegal THEN "_" ELSE filename[i]]))
ExtOf(filename) ==
    SubSeq(Stripped(filename), ExtAt(Stripped(filename)), Len(Stripped(filename)))

\* A sanitized name as the claim wants it, for a length limit.
WellFormed(name, limit) ==
    /\ name # <<>>
    /\ \A i \in 1..Len(name) : name[i] \notin Illegal
    /\ name[1] \notin {".", " "}
    /\ name[Len(name)] \notin {".", " "}
    /\ Len(name) <= limit
    /\ Len(Stripped(raw)) > limit =>
          /\ Len(name) >= Len(ExtOf(raw))
          /\ SubSeq(name, Len(name) - Len(ExtOf(raw)) + 1, Len(name)) = ExtOf(raw)

\* C23: for every text, the name each _sanitize_filename returns is not
\* empty, holds none of < > : " / \ | ? *, neither starts nor ends with a
\* space or a dot, is at most 200 (ImageDownloader) or 255 (FileWriter)
\* characters long, and ends with the extension of the text when it was cut.
C23_SanitizedWellFormed ==
    /\ clean.image.done => WellFormed(clean.image.name, IMAGE_NAME_MAX)
    /\ clean.file.done => WellFormed(clean.file.name, NAME_MAX)

\* ============================================================================
\* Two callers of process_file on one ImageDownloader (image_downloader.py
\* lines 126-160): the cache self._downloaded_files and the asset directory
\* are shared, nothing in the class synchronizes them, and the callers' steps
\* interleave.
\* ============================================================================
Callers == {1, 2}

\* The documents of the two callers, each with one remote reference.
CallerDocs == {<<DocA, DocB>>, <<DocA, DocC>>}

NewCaller(doc, url) ==
    [pc |-> "enter", doc |-> doc, url |-> url, local_filename |-> "", outcome |-> "",
     path |-> ""]

\* line 131: the name is allocated among the files that exist now.
Allocate(t) ==
    /\ caller[t].pc = "enter"
    /\ caller' = [caller EXCEPT ![t].pc = "allocated",
                                ![t].local_filename =
                                    _generate_filename(DOMAIN shared_files,
                                                       _extract_ticket_key(caller[t].doc),
                                                       caller[t].url, "a")]
    /\ UNCHANGED <<shared_cache, shared_files, sent, pipeline, classifier, writer,
                   sanitizer, pager>>

\* lines 134-143: the URL is in the cache, its path is used.
Lookup(t) ==
    /\ caller[t].pc = "allocated"
    /\ caller[t].url \in DOMAIN shared_cache
    /\ caller' = [caller EXCEPT ![t].pc = "done", ![t].outcome = "hit",
                                ![t].path = shared_cache[caller[t].url]]
    /\ UNCHANGED <<shared_cache, shared_files, sent, pipeline, classifier, writer,
                   sanitizer, pager>>

\* lines 134, 145 and 274: the URL is not in the cache, the request is made.
Miss(t) ==
    /\ caller[t].pc = "allocated"
    /\ caller[t].url \notin DOMAIN shared_cache
    /\ caller' = [caller EXCEPT ![t].pc = "download"]
    /\ sent' = Append(sent, [caller |-> t, url |-> caller[t].url])
    /\ UNCHANGED <<shared_cache, shared_files, pipeline, classifier, writer,
                   sanitizer, pager>>

\* _download_image, lines 303 and 310: os.replace puts the file at the
\* allocated name, over whatever is there.
Downloaded(t) ==
    /\ caller[t].pc = "download"
    /\ shared_files' = [n \in DOMAIN shared_files \cup {caller[t].local_filename} |->
                           IF n = caller[t].local_filename THEN caller[t].url
                           ELSE shared_files[n]]
    /\ caller' = [caller EXCEPT ![t].pc = "downloaded"]
    /\ UNCHANGED <<shared_cache, sent, pipeline, classifier, writer,
                   sanitizer, pager>>

\* _download_image, lines 312-319, then lines 157-160
DownloadFailed(t) ==
    /\ caller[t].pc = "download"
    /\ caller' = [caller EXCEPT ![t].pc = "done", ![t].outcome = "failed"]
    /\ UNCHANGED <<shared_cache, shared_files, sent, pipeline, classifier, writer,
                   sanitizer, pager>>

\* lines 147-156: the URL is recorded in the cache.
Record(t) ==
    /\ caller[t].pc = "downloaded"
    /\ shared_cache' = [u \in DOMAIN shared_cache \cup {caller[t].url} |->
                           IF u = caller[t].url THEN caller[t].local_filename
                           ELSE shared_cache[u]]
    /\ caller' = [caller EXCEPT ![t].pc = "done", ![t].outcome = "ok",
                                ![t].path = caller[t].local_filename]
    /\ UNCHANGED <<shared_files, sent, pipeline, classifier, writer,
                   sanitizer, pager>>

ConcurrentInit ==
    /\ PipelineOff
    /\ ClassifierOff
    /\ WriterOff
    /\ SanitizerOff
    /\ PagerOff
    /\ \E ds \in CallerDocs : \E u1, u2 \in RemoteRefUrls :
          caller = <<NewCaller(ds[1], u1), NewCaller(ds[2], u2)>>
    /\ shared_cache = <<>>
    /\ shared_files = <<>>
    /\ sent = <<>>

ConcurrentNext ==
    \/ \E t \in Callers : Allocate(t)
    \/ \E t \in Callers : Lookup(t)
    \/ \E t \in Callers : Miss(t)
    \/ \E t \in Callers : Downloaded(t)
    \/ \E t \in Callers : DownloadFailed(t)
    \/ \E t \in Callers : Record(t)

ConcurrentSpec == ConcurrentInit /\ [][ConcurrentNext]_vars

C26_WriterAllOrNothing ==
    (ret.op = "write_ticket" /\ call = NoCall /\ (overwrite \/ ret.had = "")) =>
      /\ ret.raised = "" =>
            /\ ret.filepath \in DOMAIN out_files
            /\ out_files[ret.filepath] = ret.markdown_content
      /\ ret.raised # "" => Had(ret.filepath) = ret.had
      /\ \A t \in out_temps : t.prefix # ret.filepath

\* ============================================================================
\* The paginated fallback of JiraClient.search_all_issues (jira_client.py
\* lines 210-231) against a server that answers a search with the matching
\* issues from the offset asked for, no more of them than asked for and no
\* more than its own limit for one page.
\* ============================================================================
MaxTotal == 5
MaxBatch == 3

\* search_issues(jql, maxResults, startAt): the page the server returns.
search_issues(maxResults, startAt) ==
    LET n == Min({maxResults, page_cap, IF matches > startAt THEN matches - startAt ELSE 0})
    IN  [i \in 1..n |-> startAt + i]

\* lines 214-229, a turn of the loop that goes on: the page is not empty and
\* holds batch_size issues.
SearchMore ==
    LET issues == search_issues(batch_size, start_at)
    IN  /\ ~returned
        /\ issues # <<>>
        /\ Len(issues) >= batch_size
        /\ searches' = searches + 1
        /\ all_issues' = all_issues \o issues
        /\ start_at' = start_at + Len(issues)
        /\ UNCHANGED <<matches, page_cap, batch_size, returned, pipeline, classifier, writer,
                       sanitizer, concurrent>>

\* lines 214-223, then 231-232: the page is empty, the loop ends and
\* all_issues is returned.
SearchEndsEmpty ==
    LET issues == search_issues(batch_size, start_at)
    IN  /\ ~returned
        /\ issues = <<>>
        /\ searches' = searches + 1
        /\ returned' = TRUE
        /\ UNCHANGED <<matches, page_cap, batch_size, start_at, all_issues, pipeline, classifier,
                       writer, sanitizer, concurrent>>

\* lines 214-229, then 231-232: the page holds fewer than batch_size issues;
\* it is appended, the loop ends and all_issues is returned.
SearchEndsShort ==
    LET issues == search_issues(batch_size, start_at)
    IN  /\ ~returned
        /\ issues # <<>>
        /\ Len(issues) < batch_size
        /\ searches' = searches + 1
        /\ all_issues' = all_issues \o issues
        /\ start_at' = start_at + Len(issues)
        /\ returned' = TRUE
        /\ UNCHANGED <<matches, page_cap, batch_size, pipeline, classifier, writer,
                       sanitizer, concurrent>>

PagerInit ==
    /\ PipelineOff
    /\ ClassifierOff
    /\ WriterOff
    /\ SanitizerOff
    /\ ConcurrentOff
    /\ matches \in 0..MaxTotal
    /\ batch_size \in 1..MaxBatch
    /\ page_cap \in 1..MaxBatch
    /\ start_at = 0
    /\ all_issues = <<>>
    /\ returned = FALSE
    /\ searches = 0

PagerNext ==
    \/ SearchMore
    \/ SearchEndsEmpty
    \/ SearchEndsShort

PagerSpec == PagerInit /\ [][PagerNext]_vars

\* C27: what the paginated fallback returns is every matching issue exactly
\* once in the server's order, for every number of matches, when the server
\* returns at most batch_size issues for a request, from the offset asked
\* for.
C27_ReturnsEveryIssueOnce ==
    returned => all_issues = [i \in 1..matches |-> i]

====
